---- MODULE Spec2Model ----
(***************************************************************************)
(* The scalar reverse-mode autodiff engine of src/engine/node.py (and its  *)
(* copy src/engine/value.py), as a state machine.                          *)
(*                                                                         *)
(* A graph is the sequence of the nodes created so far; a node is named by *)
(* its position in that sequence (its creation rank), which stands for the *)
(* object's identity.  Numbers are exact rationals <<num, den>>: Python's  *)
(* floats are modelled without rounding.  What a float operation raises    *)
(* (0.0 ** negative -> ZeroDivisionError) is kept.                         *)
(***************************************************************************)
EXTENDS Integers, Sequences, FiniteSets, TLC

\* ------------------------------------------------------------------ bounds
\* the largest number of nodes a graph may hold under Spec and SpecTwice
MaxNodes == 3
\* the largest number of nodes a graph may hold under SpecWide
MaxWideNodes == 4
\* the largest number of nodes a graph may hold under SpecDerived
MaxDerivedNodes == 5

\* ------------------------------------------------- exact rational numbers
Abs(n) == IF n < 0 THEN -n ELSE n

RECURSIVE GCD(_, _)
GCD(a, b) == IF b = 0 THEN a ELSE GCD(b, a % b)

\* the rational n/d in lowest terms with a positive denominator; a zero
\* denominator (which no operation of the engine produces, since the power
\* that would divide by zero raises) is kept as <<1, 0>>, <<-1, 0>> or <<0, 0>>
Norm(n, d) ==
    LET s == IF d < 0 THEN -1 ELSE 1
        g == GCD(Abs(n), Abs(d))
    IN  IF g = 0 THEN <<0, 0>> ELSE <<(s * n) \div g, (s * d) \div g>>

Q(n) == <<n, 1>>
QAdd(a, b) == Norm(a[1] * b[2] + b[1] * a[2], a[2] * b[2])
QMul(a, b) == Norm(a[1] * b[1], a[2] * b[2])
QSub(a, b) == QAdd(a, QMul(Q(-1), b))
QInv(a) == Norm(a[2], a[1])
QPos(a) == a[1] > 0

\* float ** e for an integer exponent e; the caller excludes 0.0 ** negative
RECURSIVE QPow(_, _)
QPow(a, e) ==
    IF e = 0 THEN Q(1)
    ELSE IF e > 0 THEN QMul(a, QPow(a, e - 1))
    ELSE QInv(QPow(a, -e))

\* a faulty variant: the power of a zero base never raises (IEEE infinity instead)
PowNeverRaises(a, e) == FALSE

\* 0.0 ** e raises ZeroDivisionError exactly when e is negative
PowRaises(a, e) == a = Q(0) /\ e < 0

\* ------------------------------------------------------------- input sets
\* the numbers a leaf is constructed from
LeafVals == {Q(-1), Q(0), Q(2)}
\* the numbers a leaf is constructed from under SpecDerived, whose graphs
\* get their negative values from the negations
DerivedLeafVals == {Q(0), Q(2)}
\* the bare numbers handed to an operator in place of a node
BareNums == {Q(2)}
\* the exponents handed to __pow__
Exponents == {-1, 0, 2}

\* ------------------------------------------------------------------ nodes
\* OperationEnum tags; a leaf's _operation is None
ADD == "+"
MULTIPLY == "*"
POWER == "^"
SIGMOID == "sigmoid"
ReLU == "relu"
None == "None"

\* Node.__init__: data, grad = 0.0, _previous = set(previous), _operation.
\* self/other/exponent are what the node's _backward closure captures
\* (0 where the closure captures nothing of that kind).
Node(data, previous, operation, self, other, exponent) ==
    [data |-> data, grad |-> Q(0), previous |-> previous,
     operation |-> operation, self |-> self, other |-> other,
     exponent |-> exponent]

\* a leaf: Node(k), whose _backward is the no-op lambda
LeafNode(k) == Node(k, {}, None, 0, 0, 0)

\* an operand of a binary operator: a node (by identity) or a bare number
NodeArg(i) == [isNode |-> TRUE, id |-> i, num |-> Q(0)]
NumArg(k) == [isNode |-> FALSE, id |-> 0, num |-> k]

\* other = other if isinstance(other, Node) else Node(other):
\* the graph with the coerced leaf appended when other is a bare number
Coerced(ns, other) ==
    IF other.isNode THEN ns ELSE Append(ns, LeafNode(other.num))
CoercedId(ns, other) ==
    IF other.isNode THEN other.id ELSE Len(ns) + 1

\* the value an operand holds (a node's data, or the bare number itself)
ArgData(ns, a) == IF a.isNode THEN ns[a.id].data ELSE a.num

\* ------------------------------------------------------------- operators
\* Each operator maps the graph to the graph with the new nodes appended;
\* the operator's result is the last node.  XRaises tells when the Python
\* expression raises instead (no node of the failing step is created).

\* math.exp(-x) is rational only at x = 0.0, where sigmoid is exactly 1/2
SigmoidDefined(x) == x = Q(0)
SigmoidValue(x) == QInv(QAdd(Q(1), Q(1)))

sigmoid(ns, self) ==
    Append(ns, Node(SigmoidValue(ns[self].data), {self}, SIGMOID, self, 0, 0))

\* a faulty variant: relu rewrites its operand into the result, its own parent
relu_self(ns, self) ==
    [ns EXCEPT ![self] = Node(IF ~QPos(ns[self].data) THEN Q(0) ELSE ns[self].data,
                              {self}, ReLU, self, 0, 0)]

relu(ns, self) ==
    Append(ns, Node(IF ~QPos(ns[self].data) THEN Q(0) ELSE ns[self].data,
                    {self}, ReLU, self, 0, 0))

add(ns, self, other) ==
    LET g == Coerced(ns, other)
        o == CoercedId(ns, other)
    IN  Append(g, Node(QAdd(g[self].data, g[o].data), {self, o}, ADD, self, o, 0))

\* a faulty variant: the product is computed in place in self (self.data *= ...)
mul_inplace(ns, self, other) ==
    LET g == Coerced(ns, other)
        o == CoercedId(ns, other)
        h == [g EXCEPT ![self].data = QMul(@, g[o].data)]
    IN  Append(h, Node(h[self].data, {self, o}, MULTIPLY, self, o, 0))

mul(ns, self, other) ==
    LET g == Coerced(ns, other)
        o == CoercedId(ns, other)
    IN  Append(g, Node(QMul(g[self].data, g[o].data), {self, o}, MULTIPLY, self, o, 0))

powRaises(ns, self, e) == PowRaises(ns[self].data, e)
pow(ns, self, e) ==
    Append(ns, Node(QPow(ns[self].data, e), {self}, POWER, self, 0, e))

\* Python's dispatch of left + right and left * right: a node on the left
\* runs its __add__/__mul__; a bare number on the left returns
\* NotImplemented and the node on the right runs __radd__/__rmul__
radd(ns, self, other) == add(ns, self, other)
rmul(ns, self, other) == mul(ns, self, other)
Plus(ns, left, right) ==
    IF left.isNode THEN add(ns, left.id, right) ELSE radd(ns, right.id, left)
Times(ns, left, right) ==
    IF left.isNode THEN mul(ns, left.id, right) ELSE rmul(ns, right.id, left)

\* -self == self * -1
neg(ns, self) == mul(ns, self, NumArg(Q(-1)))

\* self - other == self + (-other); the negation of a bare number is a number
sub(ns, self, other) ==
    IF other.isNode
    THEN LET g == neg(ns, other.id) IN add(g, self, NodeArg(Len(g)))
    ELSE add(ns, self, NumArg(QMul(Q(-1), other.num)))

\* a faulty variant: the reflected subtraction computes self - other
rsub_swapped(ns, self, other) == sub(ns, self, other)

\* other - self == other + (-self)
rsub(ns, self, other) ==
    LET g == neg(ns, self) IN Plus(g, other, NodeArg(Len(g)))

\* self / other == self * other**-1; a bare number's power is a number
truedivRaises(ns, self, other) == PowRaises(ArgData(ns, other), -1)
truediv(ns, self, other) ==
    IF other.isNode
    THEN LET g == pow(ns, other.id, -1) IN mul(g, self, NodeArg(Len(g)))
    ELSE mul(ns, self, NumArg(QPow(other.num, -1)))

\* other / self == other * self**-1
rtruedivRaises(ns, self, other) == powRaises(ns, self, -1)
rtruediv(ns, self, other) ==
    LET g == pow(ns, self, -1) IN Times(g, other, NodeArg(Len(g)))

\* ------------------------------------------------------ _backward closures
\* x.grad += q and x.grad = q
AddGrad(ns, x, q) == [ns EXCEPT ![x].grad = QAdd(@, q)]
SetGrad(ns, x, q) == [ns EXCEPT ![x].grad = q]

\* __add__._backward: self.grad += out.grad; other.grad += out.grad
add_backward(ns, out) ==
    LET g == AddGrad(ns, ns[out].self, ns[out].grad)
    IN  AddGrad(g, g[out].other, g[out].grad)

\* a faulty variant: the product rule takes self's own value for self's gradient
mul_backward_same(ns, out) ==
    LET g == AddGrad(ns, ns[out].self,
                     QMul(ns[ns[out].self].data, ns[out].grad))
    IN  AddGrad(g, g[out].other, QMul(g[g[out].self].data, g[out].grad))

\* __mul__._backward: self.grad += other.data * out.grad;
\*                     other.grad += self.data * out.grad
mul_backward(ns, out) ==
    LET g == AddGrad(ns, ns[out].self,
                     QMul(ns[ns[out].other].data, ns[out].grad))
    IN  AddGrad(g, g[out].other, QMul(g[g[out].self].data, g[out].grad))

\* __pow__._backward: self.grad += (other * self.data ** (other - 1)) * out.grad
pow_backwardRaises(ns, out) ==
    PowRaises(ns[ns[out].self].data, ns[out].exponent - 1)
pow_backward(ns, out) ==
    AddGrad(ns, ns[out].self,
            QMul(QMul(Q(ns[out].exponent),
                      QPow(ns[ns[out].self].data, ns[out].exponent - 1)),
                 ns[out].grad))

\* sigmoid._backward: self.grad = out.data * (1 - out.data) * out.grad
sigmoid_backward(ns, out) ==
    SetGrad(ns, ns[out].self,
            QMul(QMul(ns[out].data, QSub(Q(1), ns[out].data)), ns[out].grad))

\* relu._backward: self.grad += (out.data > 0) * out.grad
relu_backward(ns, out) ==
    AddGrad(ns, ns[out].self,
            QMul(IF QPos(ns[out].data) THEN Q(1) ELSE Q(0), ns[out].grad))

\* v._backward(): the closure the operator that made v bound to it
\* (the no-op lambda for a leaf)
_backwardRaises(ns, v) ==
    ns[v].operation = POWER /\ pow_backwardRaises(ns, v)
_backward(ns, v) ==
    CASE ns[v].operation = ADD      -> add_backward(ns, v)
      [] ns[v].operation = MULTIPLY -> mul_backward(ns, v)
      [] ns[v].operation = POWER    -> pow_backward(ns, v)
      [] ns[v].operation = SIGMOID  -> sigmoid_backward(ns, v)
      [] ns[v].operation = ReLU     -> relu_backward(ns, v)
      [] OTHER                      -> ns

\* ------------------------------------------------------------ state machine
VARIABLES
    nodes,      \* the nodes created so far, in creation order
    pc,         \* where backward() stands: idle, build_topo, seed, replay, raised
    root,       \* the node backward() was called on (0 when idle)
    stack,      \* build_topo's call stack: a frame is <<v, the parents still to iterate>>
    visited,    \* backward()'s visited set
    topo,       \* backward()'s topo list
    idx,        \* position of `for v in reversed(topo)`: topo[idx] is next
    invoked,    \* history: the nodes whose _backward ran in this call, in order
    clean,      \* history: the root and its ancestors all had grad 0.0 at the call
    hist        \* history: the calls that returned, as [root, clean, grads]

vars == <<nodes, pc, root, stack, visited, topo, idx, invoked, clean, hist>>

Ids(ns) == 1..Len(ns)
Args(ns) == {NodeArg(i) : i \in Ids(ns)} \cup {NumArg(k) : k \in BareNums}

\* the nodes reachable from the set S through _previous, in at most k steps
RECURSIVE Reach(_, _, _)
Reach(ns, S, k) ==
    IF k = 0 THEN S
    ELSE Reach(ns, S \cup UNION {ns[x].previous : x \in S}, k - 1)

\* the ancestors of v, and v with them
StrictAncestors(ns, v) == Reach(ns, ns[v].previous, Len(ns))
Ancestors(ns, v) == {v} \cup StrictAncestors(ns, v)

Grads(ns) == [i \in Ids(ns) |-> ns[i].grad]

Init ==
    /\ nodes = <<>>
    /\ pc = "idle"
    /\ root = 0
    /\ stack = <<>>
    /\ visited = {}
    /\ topo = <<>>
    /\ idx = 0
    /\ invoked = <<>>
    /\ clean = FALSE
    /\ hist = <<>>

\* an operator call happens between backward() calls (one thread) and
\* leaves backward()'s locals alone
Build(ns, max) ==
    /\ pc = "idle"
    /\ Len(ns) <= max
    /\ nodes' = ns
    /\ UNCHANGED <<pc, root, stack, visited, topo, idx, invoked, clean, hist>>

\* Node(k)
Leaf(k, max) == Build(Append(nodes, LeafNode(k)), max)

Sigmoid(a, max) ==
    /\ SigmoidDefined(nodes[a].data)
    /\ Build(sigmoid(nodes, a), max)

Relu(a, max) == Build(relu(nodes, a), max)

Add(a, b, max) == Build(add(nodes, a, b), max)

Mul(a, b, max) == Build(mul(nodes, a, b), max)

\* a ** e; when it raises nothing is built and the program stops
Pow(a, e, max) ==
    /\ ~powRaises(nodes, a, e)
    /\ Build(pow(nodes, a, e), max)

Raise ==
    /\ pc' = "raised"
    /\ UNCHANGED <<root, stack, visited, topo, idx, invoked, clean, hist>>

PowRaise(a, e) ==
    /\ pc = "idle"
    /\ powRaises(nodes, a, e)
    /\ UNCHANGED nodes
    /\ Raise

\* the derived and reflected forms; k is the bare number on the left of
\* a reflected form
Neg(a, max) == Build(neg(nodes, a), max)
Sub(a, b, max) == Build(sub(nodes, a, b), max)
RAdd(k, a, max) == Build(radd(nodes, a, NumArg(k)), max)
RSub(k, a, max) == Build(rsub(nodes, a, NumArg(k)), max)
RMul(k, a, max) == Build(rmul(nodes, a, NumArg(k)), max)
TrueDiv(a, b, max) ==
    /\ ~truedivRaises(nodes, a, b)
    /\ Build(truediv(nodes, a, b), max)
RTrueDiv(k, a, max) ==
    /\ ~rtruedivRaises(nodes, a, NumArg(k))
    /\ Build(rtruediv(nodes, a, NumArg(k)), max)
DivRaise(a, b) ==
    /\ pc = "idle"
    /\ truedivRaises(nodes, a, b)
    /\ UNCHANGED nodes
    /\ Raise

\* r.backward() is entered: topo = [], visited = set(), and build_topo(r)
\* finds r unvisited, adds it and starts iterating r._previous
BackwardCall(r, calls) ==
    /\ pc = "idle"
    /\ Len(hist) < calls
    /\ pc' = "build_topo"
    /\ root' = r
    /\ topo' = <<>>
    /\ visited' = {r}
    /\ stack' = <<<<r, nodes[r].previous>>>>
    /\ idx' = 0
    /\ invoked' = <<>>
    /\ clean' = \A n \in Ancestors(nodes, r) : nodes[n].grad = Q(0)
    /\ UNCHANGED <<nodes, hist>>

\* a faulty variant: build_topo recurses into a child without the visited test
BuildTopoChildUnchecked ==
    /\ pc = "build_topo"
    /\ stack # <<>>
    /\ LET top == stack[Len(stack)]
           rest == SubSeq(stack, 1, Len(stack) - 1)
       IN  \E child \in top[2] :
              /\ stack' = Append(Append(rest, <<top[1], top[2] \ {child}>>),
                                 <<child, nodes[child].previous>>)
              /\ visited' = visited \cup {child}
    /\ UNCHANGED <<nodes, pc, root, topo, idx, invoked, clean, hist>>

\* `for child in v._previous: build_topo(child)` takes its next child, in
\* whatever order the set yields; a visited child returns at once
BuildTopoChild ==
    /\ pc = "build_topo"
    /\ stack # <<>>
    /\ LET top == stack[Len(stack)]
           rest == SubSeq(stack, 1, Len(stack) - 1)
       IN  \E child \in top[2] :
              LET here == Append(rest, <<top[1], top[2] \ {child}>>)
              IN  IF child \in visited
                  THEN /\ stack' = here
                       /\ UNCHANGED visited
                  ELSE /\ stack' = Append(here, <<child, nodes[child].previous>>)
                       /\ visited' = visited \cup {child}
    /\ UNCHANGED <<nodes, pc, root, topo, idx, invoked, clean, hist>>

\* the loop of a frame is over: topo.append(v) and build_topo(v) returns;
\* when build_topo(self) returns, backward() goes on to the seeding
BuildTopoAppend ==
    /\ pc = "build_topo"
    /\ stack # <<>>
    /\ stack[Len(stack)][2] = {}
    /\ topo' = Append(topo, stack[Len(stack)][1])
    /\ stack' = SubSeq(stack, 1, Len(stack) - 1)
    /\ pc' = IF Len(stack) = 1 THEN "seed" ELSE "build_topo"
    /\ UNCHANGED <<nodes, root, visited, idx, invoked, clean, hist>>

\* a faulty variant: the seeding accumulates, self.grad += 1.0
SeedAdds ==
    /\ pc = "seed"
    /\ nodes' = AddGrad(nodes, root, Q(1))
    /\ idx' = Len(topo)
    /\ pc' = "replay"
    /\ UNCHANGED <<root, stack, visited, topo, invoked, clean, hist>>

\* self.grad = 1.0
Seed ==
    /\ pc = "seed"
    /\ nodes' = SetGrad(nodes, root, Q(1))
    /\ idx' = Len(topo)
    /\ pc' = "replay"
    /\ UNCHANGED <<root, stack, visited, topo, invoked, clean, hist>>

\* a faulty variant: the loop runs over topo, not over reversed(topo)
ReplayNodeForward(t, i) == t[Len(t) - i + 1]

\* the node `for v in reversed(topo)` yields at loop position i
ReplayNode(t, i) == t[i]

\* one iteration of the loop: v._backward().  When the closure raises
\* ZeroDivisionError, backward() is left through the exception, with the
\* gradients written so far
Replay ==
    /\ pc = "replay"
    /\ idx > 0
    /\ IF _backwardRaises(nodes, ReplayNode(topo, idx))
       THEN /\ UNCHANGED <<nodes, idx, invoked>>
            /\ pc' = "raised"
       ELSE /\ nodes' = _backward(nodes, ReplayNode(topo, idx))
            /\ invoked' = Append(invoked, ReplayNode(topo, idx))
            /\ idx' = idx - 1
            /\ UNCHANGED pc
    /\ UNCHANGED <<root, stack, visited, topo, clean, hist>>

\* the loop is over and backward() returns; its locals are gone
BackwardReturn ==
    /\ pc = "replay"
    /\ idx = 0
    /\ pc' = "idle"
    /\ hist' = Append(hist, [root |-> root, clean |-> clean, grads |-> Grads(nodes)])
    /\ root' = 0
    /\ stack' = <<>>
    /\ visited' = {}
    /\ topo' = <<>>
    /\ invoked' = <<>>
    /\ clean' = FALSE
    /\ UNCHANGED <<nodes, idx>>

\* backward(), called at most `calls` times in a behaviour
Backward(calls) ==
    \/ \E r \in Ids(nodes) : BackwardCall(r, calls)
    \/ BuildTopoChild
    \/ BuildTopoAppend
    \/ Seed
    \/ Replay
    \/ BackwardReturn

\* the core operators on graphs of at most max nodes
Core(max) ==
    \/ \E k \in LeafVals : Leaf(k, max)
    \/ \E a \in Ids(nodes) : Sigmoid(a, max)
    \/ \E a \in Ids(nodes) : Relu(a, max)
    \/ \E a \in Ids(nodes), b \in Args(nodes) : Add(a, b, max)
    \/ \E a \in Ids(nodes), b \in Args(nodes) : Mul(a, b, max)
    \/ \E a \in Ids(nodes), e \in Exponents : Pow(a, e, max)
    \/ \E a \in Ids(nodes), e \in Exponents : PowRaise(a, e)

\* the derived and reflected forms on graphs of at most max nodes
Derived(max) ==
    \/ \E k \in DerivedLeafVals : Leaf(k, max)
    \/ \E a \in Ids(nodes) : Neg(a, max)
    \/ \E a \in Ids(nodes), b \in Args(nodes) : Sub(a, b, max)
    \/ \E a \in Ids(nodes), k \in BareNums : RAdd(k, a, max)
    \/ \E a \in Ids(nodes), k \in BareNums : RSub(k, a, max)
    \/ \E a \in Ids(nodes), k \in BareNums : RMul(k, a, max)
    \/ \E a \in Ids(nodes), b \in Args(nodes) : TrueDiv(a, b, max)
    \/ \E a \in Ids(nodes), k \in BareNums : RTrueDiv(k, a, max)
    \/ \E a \in Ids(nodes), b \in Args(nodes) : DivRaise(a, b)

\* the core operators and one backward() call
Next == Core(MaxNodes) \/ Backward(1)
Spec == Init /\ [][Next]_vars

\* backward() twice in a row on the same root: the graph is built, then
\* the two calls follow one another
SameRootAgain == hist # <<>> => root' \in {0, hist[1].root}
NextTwice ==
    \/ hist = <<>> /\ Core(MaxNodes)
    \/ Backward(2) /\ SameRootAgain
SpecTwice == Init /\ [][NextTwice]_vars

\* the core operators on larger graphs and one backward() call
NextWide == Core(MaxWideNodes) \/ Backward(1)
SpecWide == Init /\ [][NextWide]_vars

\* the derived and reflected forms
NextDerived == Derived(MaxDerivedNodes)
SpecDerived == Init /\ [][NextDerived]_vars

\* ---------------------------------------------- backward() as a function
\* build_topo(v) run to completion from the locals st = [visited, topo]:
\* the set of the locals it can end with, one for each order in which the
\* loops can iterate the parent sets
RECURSIVE build_topo(_, _, _), build_topo_loop(_, _, _)
build_topo(ns, v, st) ==
    IF v \in st.visited THEN {st}
    ELSE {[s EXCEPT !.topo = Append(@, v)] :
            s \in build_topo_loop(ns, ns[v].previous,
                                  [st EXCEPT !.visited = @ \cup {v}])}
build_topo_loop(ns, todo, st) ==
    IF todo = {} THEN {st}
    ELSE UNION {UNION {build_topo_loop(ns, todo \ {child}, s) :
                         s \in build_topo(ns, child, st)} : child \in todo}

\* the topo lists backward() can build for root r
Topos(ns, r) ==
    {s.topo : s \in build_topo(ns, r, [visited |-> {}, topo |-> <<>>])}

\* `for v in reversed(topo): v._backward()` from loop position i on
RECURSIVE replay(_, _, _)
replay(g, t, i) ==
    IF g.raised \/ i = 0 THEN g
    ELSE IF _backwardRaises(g.ns, ReplayNode(t, i))
         THEN [g EXCEPT !.raised = TRUE]
         ELSE replay([g EXCEPT !.ns = _backward(g.ns, ReplayNode(t, i))], t, i - 1)

\* r.backward() with the topo list t: the graph it leaves, and whether it raised
backward(ns, r, t) ==
    replay([ns |-> SetGrad(ns, r, Q(1)), raised |-> FALSE], t, Len(t))

\* ------------------------------------------------ the mathematics of a graph
Children(ns, n) == {c \in Ids(ns) : n \in ns[c].previous}

\* the sum of the rationals f[x], x in S
RECURSIVE QSum(_, _)
QSum(f, S) ==
    IF S = {} THEN Q(0)
    ELSE LET x == CHOOSE y \in S : TRUE IN QAdd(f[x], QSum(f, S \ {x}))

\* the local derivative: the partial derivative of child c's value with
\* respect to the value of its parent n, by the rules of calculus
LocalDerivative(ns, c, n) ==
    CASE ns[c].operation = ADD ->
            Q((IF ns[c].self = n THEN 1 ELSE 0) + (IF ns[c].other = n THEN 1 ELSE 0))
      [] ns[c].operation = MULTIPLY ->
            QAdd(IF ns[c].self = n THEN ns[ns[c].other].data ELSE Q(0),
                 IF ns[c].other = n THEN ns[ns[c].self].data ELSE Q(0))
      [] ns[c].operation = POWER ->
            QMul(Q(ns[c].exponent), QPow(ns[n].data, ns[c].exponent - 1))
      [] ns[c].operation = SIGMOID ->
            QMul(SigmoidValue(ns[n].data), QSub(Q(1), SigmoidValue(ns[n].data)))
      [] ns[c].operation = ReLU ->
            IF QPos(ns[n].data) THEN Q(1) ELSE Q(0)
      [] OTHER -> Q(0)

\* the partial derivative of r's value with respect to n's value: the sum
\* over the parent-paths from r to n of the product of the local derivatives
RECURSIVE Derivative(_, _, _)
Derivative(ns, r, n) ==
    IF n = r THEN Q(1)
    ELSE LET cs == Children(ns, n) \cap Ancestors(ns, r)
         IN  QSum([c \in cs |-> QMul(LocalDerivative(ns, c, n), Derivative(ns, r, c))], cs)

\* backward()'s loop is over: every closure has run and the call is about to return
BackwardDone == pc = "replay" /\ idx = 0

\* a node with two routes to the root: it has two children among the
\* root's ancestors, or is both operands of one of them
Shared(ns, r, n) ==
    \/ Cardinality(Children(ns, n) \cap Ancestors(ns, r)) >= 2
    \/ \E c \in Children(ns, n) \cap Ancestors(ns, r) :
          ns[c].self = n /\ ns[c].other = n

NoSigmoid(ns, r) == \A n \in Ancestors(ns, r) : ns[n].operation # SIGMOID

\* the stepwise build_topo ends with one of the lists of its functional form
TopoAgrees == pc = "seed" => topo \in Topos(nodes, root)

\* ------------------------------------------------------------------ claims

\* C1: after root.backward() on a graph whose gradients were all 0, the grad
\* of the root and of each of its ancestors is the partial derivative of the
\* root's value with respect to that node's value, for every graph shape
\* and every operator, sigmoid included.
C1_ChainRule ==
    (BackwardDone /\ clean) =>
        \A n \in Ancestors(nodes, root) :
            nodes[n].grad = Derivative(nodes, root, n)

\* the graph y = x*w + b built on nodes x, w and b of the graph
XWB(ns, x, w, b) ==
    LET m == mul(ns, x, NodeArg(w))
    IN  add(m, Len(m), NodeArg(b))

\* the graph holds three leaves and nothing else, all with grad 0.0
ThreeLeaves ==
    /\ Len(nodes) = 3
    /\ \A i \in Ids(nodes) : nodes[i].operation = None /\ nodes[i].grad = Q(0)

\* C3: in a graph of add, multiply, power and relu nodes whose gradients
\* were all 0, after y.backward() every node (a node with several routes to
\* the root included) holds the sum of the contributions along each path:
\* contributions accumulate.  In particular y = x*w + b, built on three
\* leaves x, w and b, leaves x.grad = w.data, w.grad = x.data and
\* b.grad = 1.0.
C3_Accumulates ==
    /\ (BackwardDone /\ clean /\ NoSigmoid(nodes, root)) =>
          \A n \in Ancestors(nodes, root) :
              nodes[n].grad = Derivative(nodes, root, n)
    /\ ThreeLeaves =>
          \A t \in Topos(XWB(nodes, 1, 2, 3), 5) :
              LET r == backward(XWB(nodes, 1, 2, 3), 5, t)
              IN  /\ ~r.raised
                  /\ r.ns[1].grad = nodes[2].data
                  /\ r.ns[2].grad = nodes[1].data
                  /\ r.ns[3].grad = Q(1)

\* C3's case: backward() is done on a sigmoid-free graph in which a node
\* with two routes to the root received a non-zero gradient
C3_Witness ==
    /\ BackwardDone /\ clean /\ NoSigmoid(nodes, root)
    /\ \E n \in StrictAncestors(nodes, root) :
          Shared(nodes, root, n) /\ nodes[n].grad # Q(0)

\* the position of node n in the list t (0 when absent)
Position(t, n) ==
    IF \E i \in 1..Len(t) : t[i] = n
    THEN CHOOSE i \in 1..Len(t) : t[i] = n
    ELSE 0

\* C4: the list topo that build_topo(root) leaves holds the root and each
\* of its ancestors exactly once, holds no other node, and places every
\* node after all of its parents.
C4_TopoOrder ==
    pc = "seed" =>
        /\ \A i, j \in 1..Len(topo) : topo[i] = topo[j] => i = j
        /\ {topo[i] : i \in 1..Len(topo)} = Ancestors(nodes, root)
        /\ \A i \in 1..Len(topo) :
              \A p \in nodes[topo[i]].previous :
                  Position(topo, p) > 0 /\ Position(topo, p) < i

\* C4's case: build_topo has returned on a graph in which a node is shared
\* by two children
C4_Witness ==
    /\ pc = "seed"
    /\ \E n \in StrictAncestors(nodes, root) :
          Cardinality(Children(nodes, n) \cap Ancestors(nodes, root)) >= 2

\* C9: during root.backward() a node's closure runs only after the closures
\* of all its children among the root's ancestors, the root's grad is 1.0
\* before any closure runs, and each closure runs exactly once per call.
C9_ReplayOrder ==
    pc = "replay" =>
        /\ \A j \in 1..Len(invoked) :
              \A c \in Children(nodes, invoked[j]) \cap Ancestors(nodes, root) :
                  \E i \in 1..(j - 1) : invoked[i] = c
        /\ \A i, j \in 1..Len(invoked) : invoked[i] = invoked[j] => i = j
        /\ invoked = <<>> => nodes[root].grad = Q(1)
        /\ idx = 0 => {invoked[i] : i \in 1..Len(invoked)} = Ancestors(nodes, root)

\* C9's case: all closures have run on a graph in which a node has two
\* children among the root's ancestors
C9_Witness ==
    /\ BackwardDone
    /\ \E n \in StrictAncestors(nodes, root) :
          Cardinality(Children(nodes, n) \cap Ancestors(nodes, root)) >= 2

\* what is fixed of a node at its creation
Fixed(n) == <<n.data, n.previous, n.operation, n.exponent, n.self, n.other>>

\* one step keeps every existing node's data, _previous and _operation; an
\* operator call keeps its operands whole (grad too) and only adds nodes; a
\* step of backward() adds no node
FrameStep ==
    /\ Len(nodes') >= Len(nodes)
    /\ \A i \in Ids(nodes) : Fixed(nodes'[i]) = Fixed(nodes[i])
    /\ (pc = "idle" /\ pc' = "idle") =>
          \A i \in Ids(nodes) : nodes'[i] = nodes[i]
    /\ (pc # "idle" \/ pc' # "idle") => Len(nodes') = Len(nodes)

\* C5: once a node is created its data, its parent set and its operation
\* tag never change, whatever operator calls and backward() calls follow:
\* operators modify no field of their operands and backward() writes grad
\* fields only.
C5_Frame == [][FrameStep]_vars

\* C5's case: backward() has returned, leaving non-zero gradients, and an
\* operator was then applied to a node that holds one
C5_Witness ==
    /\ pc = "idle"
    /\ hist # <<>>
    /\ Len(nodes) > Len(hist[1].grads)
    /\ \E p \in nodes[Len(nodes)].previous :
          p <= Len(hist[1].grads) /\ nodes[p].grad # Q(0)

\* every parent was created before its child, so no node reaches itself
Acyclic ==
    \A n \in Ids(nodes) :
        /\ \A p \in nodes[n].previous : p \in 1..(n - 1)
        /\ n \notin StrictAncestors(nodes, n)

\* how much work build_topo has left: the unvisited nodes, the parents its
\* frames have still to iterate, and the frames to return from
Remaining(st, vis) ==
    (Len(nodes) + 2) * (Len(nodes) - Cardinality(vis))
        + QSum([i \in 1..Len(st) |-> Q(Cardinality(st[i][2]))], 1..Len(st))[1]
        + 2 * Len(st)

\* every step of build_topo's recursion uses up some of the work left, and
\* the recursion is never deeper than the graph has nodes
BuildTopoStep ==
    pc = "build_topo" =>
        /\ Remaining(stack', visited') < Remaining(stack, visited)
        /\ Remaining(stack', visited') >= 0
        /\ Len(stack) <= Len(nodes)

\* C6: after any sequence of leaf constructions and operator calls the
\* parent relation is acyclic (parents are created before their children,
\* no node reaches itself through _previous), and build_topo's recursion
\* terminates for every root.
C6_AcyclicTerminates == [](Acyclic) /\ [][BuildTopoStep]_vars

\* C6's case: build_topo's recursion is three calls deep
C6_Witness == pc = "build_topo" /\ Len(stack) >= 3

\* the power closure about to run divides by zero: its base holds 0.0 and
\* exponent - 1 is negative
ZeroBasePending ==
    /\ pc = "replay" /\ idx > 0
    /\ nodes[topo[idx]].operation = POWER
    /\ nodes[nodes[topo[idx]].self].data = Q(0)
    /\ nodes[topo[idx]].exponent - 1 < 0

\* C8 as stated: the engine has no error path for the power rule;
\* backward() completes and a zero raised to a negative power yields
\* infinity or NaN, so nothing ever raises.
C8_NeverRaises == pc # "raised"

RaiseStep ==
    /\ ZeroBasePending => (pc' = "raised" /\ nodes' = nodes)
    /\ (pc = "replay" /\ pc' = "raised") => ZeroBasePending
    /\ (pc = "idle" /\ pc' = "raised") =>
          (nodes' = nodes /\ \E a \in Ids(nodes) : nodes[a].data = Q(0))

\* C8 amended: when a power node's base holds 0.0 and exponent - 1 is
\* negative, backward() raises ZeroDivisionError at that node's closure and
\* leaves the gradients as they were before it; nothing else makes
\* backward() raise; a zero raised to a negative power raises at
\* construction, so no power node has a zero base and a negative exponent.
C8_Raises ==
    /\ [][RaiseStep]_vars
    /\ [](\A n \in Ids(nodes) :
            (nodes[n].operation = POWER /\ nodes[n].exponent < 0)
                => nodes[nodes[n].self].data # Q(0))

\* C8's case: backward() was left through the exception of a power closure
C8_Witness ==
    /\ pc = "raised" /\ root # 0 /\ idx > 0
    /\ nodes[topo[idx]].operation = POWER
    /\ nodes[nodes[topo[idx]].self].data = Q(0)

\* the second of two backward() calls in a row on the same root is done,
\* and the first began with all gradients 0
SecondDone ==
    /\ BackwardDone
    /\ Len(hist) = 1
    /\ hist[1].root = root
    /\ hist[1].clean

\* the nodes whose only route to the root is the edge into it
OnlyUnderRoot(ns, r) ==
    {n \in ns[r].previous : Children(ns, n) \cap Ancestors(ns, r) = {r}}

\* C2 as stated: after the second call every gradient, the root's
\* included, is exactly twice what it was after the first call.
C2_Doubles ==
    SecondDone =>
        \A n \in Ancestors(nodes, root) :
            nodes[n].grad = QMul(Q(2), hist[1].grads[n])

\* C2 amended: a second backward() on the same root adds to the first
\* result without doubling it throughout.  The root's grad is 1.0 after
\* each call; every other ancestor none of whose children is a sigmoid node
\* ends with its first gradient plus, for each child among the root's
\* ancestors, the local derivative times that child's gradient after the
\* second call; so a node whose only route to the root is the edge into it
\* is exactly doubled (unchanged when the root is a sigmoid node), and a
\* deeper node is not.
C2_AccumulatesOnTop ==
    SecondDone =>
        /\ nodes[root].grad = Q(1)
        /\ hist[1].grads[root] = Q(1)
        /\ \A n \in StrictAncestors(nodes, root) :
              LET cs == Children(nodes, n) \cap Ancestors(nodes, root)
              IN  (\A c \in cs : nodes[c].operation # SIGMOID) =>
                      nodes[n].grad =
                          QAdd(hist[1].grads[n],
                               QSum([c \in cs |-> QMul(LocalDerivative(nodes, c, n),
                                                       nodes[c].grad)], cs))
        /\ \A n \in OnlyUnderRoot(nodes, root) :
              nodes[n].grad = IF nodes[root].operation = SIGMOID
                              THEN hist[1].grads[n]
                              ELSE QMul(Q(2), hist[1].grads[n])

\* C2's case: the second call is done on a graph two edges deep, where
\* the node next to the root doubled and the deeper one did not
C2_Witness ==
    /\ SecondDone
    /\ \E n \in OnlyUnderRoot(nodes, root) :
          /\ hist[1].grads[n] # Q(0)
          /\ \E m \in nodes[n].previous :
                /\ hist[1].grads[m] # Q(0)
                /\ nodes[m].grad # QMul(Q(2), hist[1].grads[m])

\* the graph with the gradients of r and of its ancestors put back to 0.0
Zeroed(ns, r) ==
    [i \in Ids(ns) |-> IF i \in Ancestors(ns, r)
                       THEN [ns[i] EXCEPT !.grad = Q(0)] ELSE ns[i]]

\* C10: from all-zero gradients and a fixed root, backward() ends with the
\* same gradients whichever order build_topo iterates the parent sets in:
\* every topo list it could have built gives the gradients this run gave.
C10_OrderIndependent ==
    (BackwardDone /\ clean) =>
        \A t \in Topos(nodes, root) :
            Grads(backward(Zeroed(nodes, root), root, t).ns) = Grads(nodes)

\* a node as the graph above the first `base` nodes shows it: a node that
\* was there before is itself; a new node is its value, its tag and the
\* unordered set of its parents, each seen the same way
RECURSIVE Shape(_, _, _)
Shape(ns, base, i) ==
    IF i <= base
    THEN [id |-> i, data |-> Q(0), operation |-> "old", exponent |-> 0, parents |-> {}]
    ELSE [id |-> 0, data |-> ns[i].data, operation |-> ns[i].operation,
          exponent |-> ns[i].exponent,
          parents |-> {Shape(ns, base, p) : p \in ns[i].previous}]

\* what backward() on the last node can leave, over the orders build_topo
\* can take: whether it raised, and the gradients, node by node as Shape
\* shows the nodes
Outcomes(ns, base) ==
    LET shapes == [i \in Ids(ns) |-> Shape(ns, base, i)]
    IN  {LET r == backward(ns, Len(ns), t)
         IN  <<r.raised, {<<shapes[i], r.ns[i].grad>> : i \in Ids(ns)}>> :
            t \in Topos(ns, Len(ns))}

\* two graphs grown from the same `base` nodes are the same graph: as many
\* new nodes, the same result with the same tags and parent sets at every
\* level, and the same gradients after backward() on the result
SameGraph(g, h, base) ==
    /\ Len(g) = Len(h)
    /\ Shape(g, base, Len(g)) = Shape(h, base, Len(h))
    /\ Outcomes(g, base) = Outcomes(h, base)

\* C7: for every node n and bare number k, each reflected form (k + n,
\* k - n, k * n, k / n) builds the graph that the node-first form builds
\* with k made a leaf (Node(k) + n, Node(k) - n, Node(k) * n, Node(k) / n):
\* same value, tags, number of new nodes and parent sets, hence the same
\* gradients after backward().
C7_ReflectedSame ==
    \A n \in Ids(nodes), k \in BareNums :
        LET base == Len(nodes)
            withLeaf == Append(nodes, LeafNode(k))
            leaf == Len(nodes) + 1
        IN  /\ SameGraph(radd(nodes, n, NumArg(k)), add(withLeaf, leaf, NodeArg(n)), base)
            /\ SameGraph(rsub(nodes, n, NumArg(k)), sub(withLeaf, leaf, NodeArg(n)), base)
            /\ SameGraph(rmul(nodes, n, NumArg(k)), mul(withLeaf, leaf, NodeArg(n)), base)
            /\ rtruedivRaises(nodes, n, NumArg(k)) = truedivRaises(withLeaf, leaf, NodeArg(n))
            /\ ~rtruedivRaises(nodes, n, NumArg(k)) =>
                  SameGraph(rtruediv(nodes, n, NumArg(k)),
                            truediv(withLeaf, leaf, NodeArg(n)), base)

\* C7's case: the graph was grown by a reflected subtraction k - n, whose
\* result adds the coerced leaf k to the product n * -1
C7_Witness ==
    \E i \in Ids(nodes) :
        /\ nodes[i].operation = ADD
        /\ nodes[i].other = i - 1 /\ nodes[i - 1].operation = None
        /\ nodes[i].self = i - 2 /\ nodes[i - 2].operation = MULTIPLY
        /\ nodes[nodes[i - 2].other].data = Q(-1)

====
